---- MODULE Spec2Model ----
(***************************************************************************)
(* A model of kingtime-rs (src/src/lib.rs): the transport functions get,   *)
(* get_with_query and post, the untagged Response envelope, the endpoint   *)
(* functions built on them, the Code codec and the ts_seconds_jst          *)
(* serializer.  Text is modelled as TLA+ strings, JSON values as tagged    *)
(* records, and a DateTime<Utc> as its UTC calendar fields.                *)
(***************************************************************************)
EXTENDS Integers, Sequences, FiniteSets, TLC

VARIABLES pc, args, request, response, result, sends, nCalls, nSent,
          cin, cenc, cdec

vars == <<pc, args, request, response, result, sends, nCalls, nSent,
          cin, cenc, cdec>>

(***************************************************************************)
(* Bounds of the model.                                                    *)
(***************************************************************************)
\* calls made one after the other in Spec
MaxCalls == 2
\* calls in flight together in ConcSpec
MaxInFlight == 2
\* longest errors array of a response body
MaxErrors == 2
\* longest array (date groups, daily workings, time records) of a listing
MaxList == 2

(***************************************************************************)
(* Text: decimal digits, zero padding, number parsing.                     *)
(***************************************************************************)
Char(s, i) == SubSeq(s, i, i)

DigitVal(c) ==
  CASE c = "0" -> 0 [] c = "1" -> 1 [] c = "2" -> 2 [] c = "3" -> 3
    [] c = "4" -> 4 [] c = "5" -> 5 [] c = "6" -> 6 [] c = "7" -> 7
    [] c = "8" -> 8 [] c = "9" -> 9 [] OTHER -> -1

\* the digits s[a..b] as a number, -1 when one of them is no digit
RECURSIVE ParseNum(_, _, _)
ParseNum(s, a, b) ==
  IF b < a THEN 0
  ELSE LET hi == ParseNum(s, a, b - 1)
           d  == DigitVal(Char(s, b))
       IN IF hi < 0 \/ d < 0 THEN -1 ELSE 10 * hi + d

\* n >= 0 in decimal, zero-padded to at least w digits
RECURSIVE Pad(_, _)
Pad(n, w) ==
  IF Len(ToString(n)) >= w THEN ToString(n) ELSE "0" \o Pad(n, w - 1)

\* the index of the first character of s at or after i that is no digit
RECURSIVE SkipDigits(_, _)
SkipDigits(s, i) ==
  IF i <= Len(s) /\ DigitVal(Char(s, i)) >= 0 THEN SkipDigits(s, i + 1) ELSE i

(***************************************************************************)
(* Calendar arithmetic of chrono's NaiveDate / NaiveDateTime.              *)
(***************************************************************************)
IsLeap(y) == (y % 4 = 0 /\ y % 100 # 0) \/ y % 400 = 0

DaysInMonth(y, m) ==
  CASE m \in {1, 3, 5, 7, 8, 10, 12} -> 31
    [] m \in {4, 6, 9, 11} -> 30
    [] OTHER -> IF IsLeap(y) THEN 29 ELSE 28

ValidDate(y, m, d) == m \in 1..12 /\ d >= 1 /\ d <= DaysInMonth(y, m)

NextDay(t) ==
  IF t.day < DaysInMonth(t.year, t.month) THEN [t EXCEPT !.day = t.day + 1]
  ELSE IF t.month < 12 THEN [t EXCEPT !.month = t.month + 1, !.day = 1]
  ELSE [t EXCEPT !.year = t.year + 1, !.month = 1, !.day = 1]

PrevDay(t) ==
  IF t.day > 1 THEN [t EXCEPT !.day = t.day - 1]
  ELSE IF t.month > 1
       THEN [t EXCEPT !.month = t.month - 1,
                      !.day = DaysInMonth(t.year, t.month - 1)]
  ELSE [t EXCEPT !.year = t.year - 1, !.month = 12, !.day = 31]

SecOfDay(t) == t.hour * 3600 + t.minute * 60 + t.second

WithSecOfDay(t, s) ==
  [t EXCEPT !.hour = s \div 3600, !.minute = (s % 3600) \div 60,
            !.second = s % 60]

\* the date-time delta seconds later, for -86400 < delta < 86400
ShiftSecs(t, delta) ==
  LET s == SecOfDay(t) + delta
  IN IF s < 0 THEN WithSecOfDay(PrevDay(t), s + 86400)
     ELSE IF s >= 86400 THEN WithSecOfDay(NextDay(t), s - 86400)
     ELSE WithSecOfDay(t, s)

DateTime(y, mo, d, h, mi, s, n) ==
  [year |-> y, month |-> mo, day |-> d, hour |-> h, minute |-> mi,
   second |-> s, nano |-> n]

NaiveDate(y, m, d) == [year |-> y, month |-> m, day |-> d]

(***************************************************************************)
(* chrono's text forms: NaiveDate's Display and FromStr (YYYY-MM-DD), and  *)
(* DateTime<Utc>'s to_rfc3339 / to_rfc3339_opts and FromStr (RFC 3339).    *)
(***************************************************************************)
\* a year is written with four digits inside 0..9999, and signed outside
FormatYear(y) ==
  IF y >= 0 /\ y <= 9999 THEN Pad(y, 4)
  ELSE IF y > 9999 THEN "+" \o ToString(y)
  ELSE "-" \o Pad(0 - y, 4)

FormatDate(d) ==
  FormatYear(d.year) \o "-" \o Pad(d.month, 2) \o "-" \o Pad(d.day, 2)

\* the fraction of SecondsFormat::AutoSi: none, 3, 6 or 9 digits
FormatNanos(n) ==
  IF n = 0 THEN ""
  ELSE IF n % 1000000 = 0 THEN "." \o Pad(n \div 1000000, 3)
  ELSE IF n % 1000 = 0 THEN "." \o Pad(n \div 1000, 6)
  ELSE "." \o Pad(n, 9)

\* DateTime<Utc>::to_rfc3339_opts(secform, use_z): the UTC fields of t, the
\* fraction secform asks for, and the offset of Utc, which is zero
FormatRfc3339(t, secform, use_z) ==
  FormatDate(t) \o "T" \o Pad(t.hour, 2) \o ":" \o Pad(t.minute, 2) \o ":"
    \o Pad(t.second, 2)
    \o (IF secform = "Secs" THEN "" ELSE FormatNanos(t.nano))
    \o (IF use_z THEN "Z" ELSE "+00:00")

Pow10(k) ==
  CASE k = 0 -> 1 [] k = 1 -> 10 [] k = 2 -> 100 [] k = 3 -> 1000
    [] k = 4 -> 10000 [] k = 5 -> 100000 [] k = 6 -> 1000000
    [] k = 7 -> 10000000 [] k = 8 -> 100000000 [] OTHER -> 1000000000

ParseFail == [ok |-> FALSE]

\* NaiveDate::from_str
ParseDate(s) ==
  IF Len(s) # 10 \/ Char(s, 5) # "-" \/ Char(s, 8) # "-" THEN ParseFail
  ELSE LET y == ParseNum(s, 1, 4)
           m == ParseNum(s, 6, 7)
           d == ParseNum(s, 9, 10)
       IN IF y < 0 \/ m < 0 \/ d < 0 \/ ~ValidDate(y, m, d) THEN ParseFail
          ELSE [ok |-> TRUE, v |-> NaiveDate(y, m, d)]

\* the offset text of s from position j on: Z, or a sign and HH:MM;
\* the result is the offset in seconds east of UTC
ParseOffset(s, j) ==
  IF Len(s) = j /\ Char(s, j) \in {"Z", "z"} THEN [ok |-> TRUE, v |-> 0]
  ELSE IF Len(s) # j + 5 \/ Char(s, j) \notin {"+", "-"}
          \/ Char(s, j + 3) # ":" THEN ParseFail
  ELSE LET h == ParseNum(s, j + 1, j + 2)
           m == ParseNum(s, j + 4, j + 5)
           secs == h * 3600 + m * 60
       IN IF h < 0 \/ m < 0 \/ h > 23 \/ m > 59 THEN ParseFail
          ELSE [ok |-> TRUE, v |-> IF Char(s, j) = "-" THEN 0 - secs ELSE secs]

\* str::parse::<DateTime<Utc>>: the RFC 3339 text s as the instant it
\* denotes, in UTC fields (the written local time minus the written offset)
ParseRfc3339(s) ==
  IF Len(s) < 20 \/ Char(s, 5) # "-" \/ Char(s, 8) # "-"
     \/ Char(s, 11) \notin {"T", "t"} \/ Char(s, 14) # ":"
     \/ Char(s, 17) # ":" THEN ParseFail
  ELSE LET y  == ParseNum(s, 1, 4)
           mo == ParseNum(s, 6, 7)
           d  == ParseNum(s, 9, 10)
           h  == ParseNum(s, 12, 13)
           mi == ParseNum(s, 15, 16)
           se == ParseNum(s, 18, 19)
           frac == Char(s, 20) = "."
           j  == IF frac THEN SkipDigits(s, 21) ELSE 20
           k  == j - 21
           n  == IF frac /\ k >= 1 /\ k <= 9
                 THEN ParseNum(s, 21, j - 1) * Pow10(9 - k) ELSE 0
           off == ParseOffset(s, j)
       IN IF y < 0 \/ mo < 0 \/ d < 0 \/ h < 0 \/ mi < 0 \/ se < 0
             \/ ~ValidDate(y, mo, d) \/ h > 23 \/ mi > 59 \/ se > 59
             \/ (frac /\ (k < 1 \/ k > 9)) \/ ~off.ok THEN ParseFail
          ELSE [ok |-> TRUE,
                v |-> ShiftSecs(DateTime(y, mo, d, h, mi, se, n), 0 - off.v)]

(***************************************************************************)
(* mod ts_seconds_jst                                                      *)
(***************************************************************************)
\* FixedOffset::east(9 * 3600)
JstOffsetSecs == 9 * 3600

\* DateTime<Utc> + FixedOffset: chrono adds the offset's seconds to the
\* instant and keeps the time zone, so the sum is again a DateTime<Utc>
AddFixedOffset(t, secs) == ShiftSecs(t, secs)

\* lines 17-18, or the panic of line 16's unwrap when the text did not parse
ShiftAndFormat(parsed) ==
  IF ~parsed.ok THEN [panic |-> TRUE]
  ELSE [panic |-> FALSE,
        out |-> FormatRfc3339(AddFixedOffset(parsed.v, JstOffsetSecs),
                              "AutoSi", FALSE)]

\* ts_seconds_jst::serialize: the value is written to whole seconds (line
\* 15), read back (line 16), moved by the offset (line 17) and written
ts_seconds_jst_serialize(value) ==
  ShiftAndFormat(ParseRfc3339(FormatRfc3339(value, "Secs", FALSE)))

(***************************************************************************)
(* daily_workings::timerecord::Code and its serde implementations.         *)
(***************************************************************************)
Code == {"In", "Out", "BreakStart", "BreakEnd"}

\* a mutant of Code_serialize: the two break codes change places
Code_serialize_swapped(c) ==
  CASE c = "In" -> "1"
    [] c = "Out" -> "2"
    [] c = "BreakStart" -> "4"
    [] c = "BreakEnd" -> "3"

\* impl Serialize for Code
Code_serialize(c) ==
  CASE c = "In" -> "1"
    [] c = "Out" -> "2"
    [] c = "BreakStart" -> "3"
    [] c = "BreakEnd" -> "4"

\* a mutant of CodeVisitor_visit_str: digits are read as numbers, so that
\* "01" is In
CodeVisitor_visit_str_numeric(v) ==
  CASE v \in {"1", "01"} -> [ok |-> TRUE, v |-> "In"]
    [] v = "2" -> [ok |-> TRUE, v |-> "Out"]
    [] v = "3" -> [ok |-> TRUE, v |-> "BreakStart"]
    [] v = "4" -> [ok |-> TRUE, v |-> "BreakEnd"]
    [] OTHER -> [ok |-> FALSE, msg |-> "unknown code: " \o v]

\* CodeVisitor::visit_str
CodeVisitor_visit_str(v) ==
  CASE v = "1" -> [ok |-> TRUE, v |-> "In"]
    [] v = "2" -> [ok |-> TRUE, v |-> "Out"]
    [] v = "3" -> [ok |-> TRUE, v |-> "BreakStart"]
    [] v = "4" -> [ok |-> TRUE, v |-> "BreakEnd"]
    [] OTHER -> [ok |-> FALSE, msg |-> "unknown code: " \o v]

(***************************************************************************)
(* JSON values, as serde_json reads them: a tag t and the content, the      *)
(* text s of a string, the number n, the sequence a of an array or the     *)
(* record o of an object.                                                  *)
(***************************************************************************)
JNull == [t |-> "null"]
JStr(s) == [t |-> "str", s |-> s]
JNum(n) == [t |-> "num", n |-> n]
JArr(a) == [t |-> "arr", a |-> a]
JObj(o) == [t |-> "obj", o |-> o]
\* the object {}
JEmpty == JObj(<<>>)

DecodeFail == [ok |-> FALSE]
Decoded(x) == [ok |-> TRUE, v |-> x]

\* serde's derived struct visitors read a JSON object by field name, unknown
\* fields ignored, or a JSON array by position; every field here is required
IsStructOf(j, n) == j.t = "obj" \/ (j.t = "arr" /\ Len(j.a) = n)
HasField(j, name, idx) ==
  IF j.t = "obj" THEN name \in DOMAIN j.o ELSE idx <= Len(j.a)
Field(j, name, idx) == IF j.t = "obj" THEN j.o[name] ELSE j.a[idx]

Decode_String(j) == IF j.t = "str" THEN Decoded(j.s) ELSE DecodeFail

\* u32; every number of the model is below 2^32
Decode_u32(j) == IF j.t = "num" /\ j.n >= 0 THEN Decoded(j.n) ELSE DecodeFail

Decode_NaiveDate(j) == IF j.t = "str" THEN ParseDate(j.s) ELSE DecodeFail

Decode_DateTimeUtc(j) == IF j.t = "str" THEN ParseRfc3339(j.s) ELSE DecodeFail

\* impl Deserialize for Code: deserialize_str hands a string to the visitor
Code_deserialize(j) ==
  IF j.t = "str" THEN CodeVisitor_visit_str(j.s) ELSE DecodeFail

\* a mutant of VecOf: the elements come out in the opposite order
VecOfReversed(rs) ==
  IF \E i \in 1..Len(rs) : ~rs[i].ok THEN DecodeFail
  ELSE Decoded([i \in 1..Len(rs) |-> rs[Len(rs) + 1 - i].v])

\* Vec<T> from the outcomes rs of decoding each element of a JSON array,
\* in order: it fails when an element fails
VecOf(rs) ==
  IF \E i \in 1..Len(rs) : ~rs[i].ok THEN DecodeFail
  ELSE Decoded([i \in 1..Len(rs) |-> rs[i].v])

\* struct ErrorData { message: String, code: u32 }
ErrorDataOf(m, c) ==
  IF m.ok /\ c.ok THEN Decoded([message |-> m.v, code |-> c.v]) ELSE DecodeFail

Decode_ErrorData(j) ==
  IF ~IsStructOf(j, 2) \/ ~HasField(j, "message", 1) \/ ~HasField(j, "code", 2)
  THEN DecodeFail
  ELSE ErrorDataOf(Decode_String(Field(j, "message", 1)),
                   Decode_u32(Field(j, "code", 2)))

\* Vec<ErrorData>
Decode_Vec_ErrorData(j) ==
  IF j.t # "arr" THEN DecodeFail
  ELSE VecOf([i \in 1..Len(j.a) |-> Decode_ErrorData(j.a[i])])

\* employees::Response { last_name, first_name, key }, camelCase on the wire
EmployeeOf(l, f, k) ==
  IF l.ok /\ f.ok /\ k.ok
  THEN Decoded([last_name |-> l.v, first_name |-> f.v, key |-> k.v])
  ELSE DecodeFail

Decode_employees_Response(j) ==
  IF ~IsStructOf(j, 3) \/ ~HasField(j, "lastName", 1)
     \/ ~HasField(j, "firstName", 2) \/ ~HasField(j, "key", 3) THEN DecodeFail
  ELSE EmployeeOf(Decode_String(Field(j, "lastName", 1)),
                  Decode_String(Field(j, "firstName", 2)),
                  Decode_String(Field(j, "key", 3)))

\* daily_workings::DailyWorking { date, employee_key }
DailyWorkingOf(d, k) ==
  IF d.ok /\ k.ok THEN Decoded([date |-> d.v, employee_key |-> k.v])
  ELSE DecodeFail

Decode_DailyWorking(j) ==
  IF ~IsStructOf(j, 2) \/ ~HasField(j, "date", 1)
     \/ ~HasField(j, "employeeKey", 2) THEN DecodeFail
  ELSE DailyWorkingOf(Decode_NaiveDate(Field(j, "date", 1)),
                      Decode_String(Field(j, "employeeKey", 2)))

\* Vec<DailyWorking>
Decode_Vec_DailyWorking(j) ==
  IF j.t # "arr" THEN DecodeFail
  ELSE VecOf([i \in 1..Len(j.a) |-> Decode_DailyWorking(j.a[i])])

\* DailyWorkings { date, daily_workings }, of both modules
DailyWorkingsOf(d, w) ==
  IF d.ok /\ w.ok THEN Decoded([date |-> d.v, daily_workings |-> w.v])
  ELSE DecodeFail

\* daily_workings::DailyWorkings
Decode_DailyWorkings(j) ==
  IF ~IsStructOf(j, 2) \/ ~HasField(j, "date", 1)
     \/ ~HasField(j, "dailyWorkings", 2) THEN DecodeFail
  ELSE DailyWorkingsOf(Decode_NaiveDate(Field(j, "date", 1)),
                       Decode_Vec_DailyWorking(Field(j, "dailyWorkings", 2)))

\* daily_workings::Response(Vec<DailyWorkings>)
Decode_daily_workings_Response(j) ==
  IF j.t # "arr" THEN DecodeFail
  ELSE VecOf([i \in 1..Len(j.a) |-> Decode_DailyWorkings(j.a[i])])

\* timerecord::TimeRecord { time, code }
TimeRecordOf(t, c) ==
  IF t.ok /\ c.ok THEN Decoded([time |-> t.v, code |-> c.v]) ELSE DecodeFail

Decode_TimeRecord(j) ==
  IF ~IsStructOf(j, 2) \/ ~HasField(j, "time", 1) \/ ~HasField(j, "code", 2)
  THEN DecodeFail
  ELSE TimeRecordOf(Decode_DateTimeUtc(Field(j, "time", 1)),
                    Code_deserialize(Field(j, "code", 2)))

\* Vec<TimeRecord>
Decode_Vec_TimeRecord(j) ==
  IF j.t # "arr" THEN DecodeFail
  ELSE VecOf([i \in 1..Len(j.a) |-> Decode_TimeRecord(j.a[i])])

\* timerecord::DailyWorking { date, employee_key, time_record }
tr_DailyWorkingOf(d, k, r) ==
  IF d.ok /\ k.ok /\ r.ok
  THEN Decoded([date |-> d.v, employee_key |-> k.v, time_record |-> r.v])
  ELSE DecodeFail

Decode_tr_DailyWorking(j) ==
  IF ~IsStructOf(j, 3) \/ ~HasField(j, "date", 1)
     \/ ~HasField(j, "employeeKey", 2) \/ ~HasField(j, "timeRecord", 3)
  THEN DecodeFail
  ELSE tr_DailyWorkingOf(Decode_NaiveDate(Field(j, "date", 1)),
                         Decode_String(Field(j, "employeeKey", 2)),
                         Decode_Vec_TimeRecord(Field(j, "timeRecord", 3)))

\* Vec<timerecord::DailyWorking>
Decode_Vec_tr_DailyWorking(j) ==
  IF j.t # "arr" THEN DecodeFail
  ELSE VecOf([i \in 1..Len(j.a) |-> Decode_tr_DailyWorking(j.a[i])])

\* timerecord::DailyWorkings
Decode_tr_DailyWorkings(j) ==
  IF ~IsStructOf(j, 2) \/ ~HasField(j, "date", 1)
     \/ ~HasField(j, "dailyWorkings", 2) THEN DecodeFail
  ELSE DailyWorkingsOf(Decode_NaiveDate(Field(j, "date", 1)),
                       Decode_Vec_tr_DailyWorking(Field(j, "dailyWorkings", 2)))

\* timerecord::Response(Vec<DailyWorkings>)
Decode_timerecord_Response(j) ==
  IF j.t # "arr" THEN DecodeFail
  ELSE VecOf([i \in 1..Len(j.a) |-> Decode_tr_DailyWorkings(j.a[i])])

\* timerecord::PostResponse {}
Decode_PostResponse(j) ==
  IF IsStructOf(j, 0) THEN Decoded("PostResponse") ELSE DecodeFail

\* the success types D the endpoint functions ask for
SuccessTypes ==
  {"employees::Response", "daily_workings::Response",
   "timerecord::Response", "PostResponse"}

Decode_D(D, j) ==
  CASE D = "employees::Response" -> Decode_employees_Response(j)
    [] D = "daily_workings::Response" -> Decode_daily_workings_Response(j)
    [] D = "timerecord::Response" -> Decode_timerecord_Response(j)
    [] D = "PostResponse" -> Decode_PostResponse(j)

\* the variant Error { errors: Vec<ErrorData> } of the untagged enum: a JSON
\* object with a field errors (an untagged struct variant reads no array)
Decode_Response_Error(j) ==
  IF j.t # "obj" \/ "errors" \notin DOMAIN j.o THEN DecodeFail
  ELSE Decode_Vec_ErrorData(j.o.errors)

\* a mutant of FirstMatch: the success shape is tried before the error shape
FirstMatchSuccessFirst(e, d) ==
  IF d.ok THEN [ok |-> TRUE, variant |-> "Ok", data |-> d.v]
  ELSE IF e.ok THEN [ok |-> TRUE, variant |-> "Error", errors |-> e.v]
  ELSE [ok |-> FALSE]

\* #[serde(untagged)] enum Response<R>: the variants are tried in the order
\* they are declared, Error first and Ok(R) second; e and d are the outcomes
\* of reading the body as each
FirstMatch(e, d) ==
  IF e.ok THEN [ok |-> TRUE, variant |-> "Error", errors |-> e.v]
  ELSE IF d.ok THEN [ok |-> TRUE, variant |-> "Ok", data |-> d.v]
  ELSE [ok |-> FALSE]

Decode_Response(D, j) == FirstMatch(Decode_Response_Error(j), Decode_D(D, j))

(***************************************************************************)
(* Transport: get, get_with_query and post.  Each builds the two headers,  *)
(* sends one request and decodes the body of the response.                 *)
(***************************************************************************)
\* HeaderValue::from_str refuses control characters other than tab; the
\* model's text holds these two
IsLegalHeaderValue(s) == \A i \in 1..Len(s) : Char(s, i) \notin {"\n", "\r"}

Panic == [panic |-> TRUE]
Sending(req) == [panic |-> FALSE, req |-> req]

\* the header map of lines 46-54; the unwrap of the Authorization value
\* panics on a token that is no legal header value
BuildHeaders(access_token) ==
  LET auth == "Bearer " \o access_token
  IN IF ~IsLegalHeaderValue(auth) THEN Panic
     ELSE [panic |-> FALSE,
           headers |-> [content_type |-> "application/json; charset=utf-8",
                        authorization |-> auth]]

NoQuery == <<>>
NoBody == [t |-> "none"]

\* the request sent with header map h, or the panic of building h
RequestOf(h, method, api, query, body) ==
  IF h.panic THEN Panic
  ELSE Sending([method |-> method, url |-> api, headers |-> h.headers,
                query |-> query, body |-> body])

\* get: the request of lines 46-59
get_request(access_token, api) ==
  RequestOf(BuildHeaders(access_token), "GET", api, NoQuery, NoBody)

\* get_with_query: the request of lines 74-88
get_with_query_request(access_token, api, query) ==
  RequestOf(BuildHeaders(access_token), "GET", api, query, NoBody)

\* post: the request of lines 103-117; payload is the outcome of
\* serializing the value handed to .json(payload), which the caller's
\* headers precede
PostOf(h, api, payload) ==
  IF h.panic \/ payload.panic THEN Panic
  ELSE Sending([method |-> "POST", url |-> api, headers |-> h.headers,
                query |-> NoQuery, body |-> payload.out])

post_request(access_token, api, payload) ==
  PostOf(BuildHeaders(access_token), api, payload)

Ok(data) == [kind |-> "Ok", data |-> data]
ErrApi(errors) == [kind |-> "Api", errors |-> errors]
ErrReqwest(why) == [kind |-> "Reqwest", why |-> why]

\* what the server, or the network, answers to one request: a failure of
\* the exchange, or a status and a body that is JSON text or is not
NetErr == [kind |-> "neterr"]
Answer(status, body) == [kind |-> "body", status |-> status, body |-> body]
NotJson == [valid |-> FALSE]
Json(j) == [valid |-> TRUE, json |-> j]

\* a mutant of match_resp: a body that matched no variant is reported as an
\* API error without entries
match_resp_api(resp) ==
  IF ~resp.ok THEN ErrApi(<<>>)
  ELSE IF resp.variant = "Error" THEN ErrApi(resp.errors)
  ELSE Ok(resp.data)

\* the match on Response<D> of lines 63-66; resp is what .json() read
match_resp(resp) ==
  IF ~resp.ok THEN ErrReqwest("decode")
  ELSE IF resp.variant = "Error" THEN ErrApi(resp.errors)
  ELSE Ok(resp.data)

\* .send().await?.json().await? and the match: lines 56-66, the same in
\* get_with_query (84-95) and post (113-124)
response_result(D, r) ==
  IF r.kind = "neterr" THEN ErrReqwest("request")
  ELSE IF ~r.body.valid THEN ErrReqwest("decode")
  ELSE match_resp(Decode_Response(D, r.body.json))

(***************************************************************************)
(* Endpoint functions.                                                     *)
(***************************************************************************)
BaseUrl == "https://api.kingtime.jp/v1.0"

\* keys.join(",")
RECURSIVE Join(_, _)
Join(keys, sep) ==
  IF Len(keys) = 0 THEN ""
  ELSE IF Len(keys) = 1 THEN keys[1]
  ELSE keys[1] \o sep \o Join(Tail(keys), sep)

\* #[derive(Serialize)] for timerecord::Request: date by NaiveDate's
\* Display, time with ts_seconds_jst, code by Code's Serialize
RequestJson(req, time) ==
  IF time.panic THEN [panic |-> TRUE]
  ELSE [panic |-> FALSE,
        out |-> JObj([date |-> JStr(FormatDate(req.date)),
                      time |-> JStr(time.out),
                      code |-> JStr(Code_serialize(req.code))])]

Request_serialize(req) == RequestJson(req, ts_seconds_jst_serialize(req.time))

\* the success type each endpoint function decodes
SuccessType(a) ==
  CASE a.op = "employees::get" -> "employees::Response"
    [] a.op = "daily_workings::get" -> "daily_workings::Response"
    [] a.op = "timerecord::get" -> "timerecord::Response"
    [] a.op = "timerecord::post" -> "PostResponse"

\* the request each endpoint function has the transport send
EndpointRequest(a) ==
  CASE a.op = "employees::get" ->
         get_request(a.token, BaseUrl \o "/employees/" \o a.code)
    [] a.op = "daily_workings::get" ->
         get_request(a.token, BaseUrl \o "/daily-workings")
    [] a.op = "timerecord::get" ->
         get_with_query_request(a.token,
           BaseUrl \o "/daily-workings/timerecord",
           << <<"employeeKeys", Join(a.keys, ",")>>,
              <<"start", FormatDate(a.start)>>,
              <<"end", FormatDate(a.end)>> >>)
    [] a.op = "timerecord::post" ->
         post_request(a.token,
           BaseUrl \o "/daily-workings/timerecord/" \o a.key,
           Request_serialize(a.req))

\* timerecord::post maps the PostResponse {} it gets to ()
UnitOf(res) == IF res.kind = "Ok" THEN Ok("unit") ELSE res

\* what the endpoint function returns when the answer to its request is r
EndpointResult(a, r) ==
  IF a.op = "timerecord::post"
  THEN UnitOf(response_result(SuccessType(a), r))
  ELSE response_result(SuccessType(a), r)

(***************************************************************************)
(* The inputs of the model: the arguments callers pass and the answers     *)
(* the server or the network gives.                                        *)
(***************************************************************************)
SeqsUpTo(S, n) == UNION {[1..k -> S] : k \in 0..n}

\* access tokens; the last one holds a line feed
Tokens == {"tokA", "tok\nB"}

\* timestamps as callers write them, in several offsets
WrittenTimes ==
  {"2016-05-01T09:00:00+09:00", "2016-05-01T18:30:15.250Z",
   "2016-12-31T20:00:00-05:00", "2016-02-29T15:00:00+00:00"}

\* chrono's latest DateTime<Utc>
MaxUtc == DateTime(262143, 12, 31, 23, 59, 59, 999999999)

RequestTimes == {ParseRfc3339(w).v : w \in WrittenTimes} \cup {MaxUtc}

Requests ==
  {[date |-> NaiveDate(2016, 5, 1), time |-> t, code |-> c] :
     t \in RequestTimes, c \in Code}

ArgsOver(toks, reqs) ==
  {[op |-> "employees::get", token |-> k, code |-> "1000"] : k \in toks}
  \cup {[op |-> "daily_workings::get", token |-> k] : k \in toks}
  \cup {[op |-> "timerecord::get", token |-> k, keys |-> ks,
         start |-> NaiveDate(2016, 5, 1), end |-> NaiveDate(2016, 5, 2)] :
          k \in toks, ks \in {<<"K1">>, <<"K1", "K2">>}}
  \cup {[op |-> "timerecord::post", token |-> k, key |-> "K1", req |-> q] :
          k \in toks, q \in reqs}

Args == ArgsOver(Tokens, Requests)

\* entries of an errors array
ErrorEntries ==
  {JObj([message |-> JStr("bad token"), code |-> JNum(401)]),
   JObj([message |-> JStr("not found"), code |-> JNum(404)]),
   JObj([message |-> JStr("bad token"), code |-> JNum(404),
         detail |-> JNull])}

EmployeeFields ==
  [lastName |-> JStr("Kintai"), firstName |-> JStr("Taro"), key |-> JStr("K1")]

\* bodies of the form {"errors":[{message, code}, ...]}; the last one also
\* holds every field of an employee
EnvelopeBodies ==
  {JObj([errors |-> JArr(e)]) : e \in SeqsUpTo(ErrorEntries, MaxErrors)}
  \cup {JObj([errors |-> JArr(<<JObj([message |-> JStr("bad token"),
                                     code |-> JNum(401)])>>),
              lastName |-> EmployeeFields.lastName,
              firstName |-> EmployeeFields.firstName,
              key |-> EmployeeFields.key])}

\* objects with a field errors that is no array of {message, code}
BadEnvelopes ==
  {JObj([errors |-> JStr("oops")]),
   JObj([errors |-> JArr(<<JObj([message |-> JStr("m")])>>)]),
   JObj([errors |-> JArr(<<JObj([message |-> JStr("m"),
                                 code |-> JNum(0 - 1)])>>)])}

EmployeeGood ==
  {JObj(EmployeeFields),
   JObj([lastName |-> JStr("Kintai"), firstName |-> JStr("Taro"),
         key |-> JStr("K1"), code |-> JStr("1000")])}

\* an employee with key missing, and one whose key is a number
EmployeeBad ==
  {JObj([lastName |-> JStr("Kintai"), firstName |-> JStr("Taro")]),
   JObj([lastName |-> JStr("Kintai"), firstName |-> JStr("Taro"),
         key |-> JNum(7)])}

\* time records as in the example payload of deserialize_response, some
\* with fields the types do not model
GoodRecords ==
  {JObj([time |-> JStr("2016-05-01T09:00:00+09:00"), code |-> JStr("1"),
         name |-> JStr("in"), latitude |-> JNum(35)]),
   JObj([time |-> JStr("2015-05-01T18:00:00+09:00"), code |-> JStr("2"),
         credentialCode |-> JNum(300)]),
   JObj([time |-> JStr("2016-05-01T10:00:00+09:00"), code |-> JStr("3")]),
   JObj([time |-> JStr("2016-05-01T11:00:00+09:00"), code |-> JStr("4")])}

\* a record with an unknown code, and one with code missing
BadRecords ==
  {JObj([time |-> JStr("2016-05-01T09:00:00+09:00"), code |-> JStr("5")]),
   JObj([time |-> JStr("2016-05-01T09:00:00+09:00")])}

DailyWorkingJson(date, key, recs) ==
  JObj([date |-> JStr(date), employeeKey |-> JStr(key),
        timeRecord |-> JArr(recs),
        currentDateEmployee |-> JObj([code |-> JStr("1000")])])

GroupJson(date, dws) == JObj([date |-> JStr(date), dailyWorkings |-> JArr(dws)])

\* one date group, one daily working, the given time records
RecordListing(recs) ==
  JArr(<<GroupJson("2016-05-01",
                   <<DailyWorkingJson("2016-05-01", "K1", recs)>>)>>)

DailyWorkingSamples ==
  {DailyWorkingJson("2016-05-01", "K1",
     <<JObj([time |-> JStr("2016-05-01T09:00:00+09:00"),
             code |-> JStr("1")])>>),
   DailyWorkingJson("2016-05-02", "K2", <<>>)}

GroupSamples ==
  {GroupJson("2016-05-01", <<>>),
   GroupJson("2016-05-02",
     <<DailyWorkingJson("2016-05-02", "K2",
         <<JObj([time |-> JStr("2016-05-02T08:00:00Z"),
                 code |-> JStr("4")])>>)>>)}

\* listing payloads every record of which is well formed
GoodListings ==
  {RecordListing(recs) : recs \in SeqsUpTo(GoodRecords, MaxList)}
  \cup {JArr(<<GroupJson("2016-05-01", dws)>>) :
          dws \in SeqsUpTo(DailyWorkingSamples, MaxList)}
  \cup {JArr(gs) : gs \in SeqsUpTo(GroupSamples, MaxList)}

\* listing payloads with at least one record that is not
BadRecordListings ==
  {RecordListing(recs) :
     recs \in SeqsUpTo(GoodRecords \cup BadRecords, MaxList)
              \ SeqsUpTo(GoodRecords, MaxList)}

\* a listing whose daily working has no timeRecord, and one with a date
\* that is no calendar date
NoRecordListing ==
  JArr(<<GroupJson("2016-05-01",
           <<JObj([date |-> JStr("2016-05-01"),
                   employeeKey |-> JStr("K1")])>>)>>)
BadDateListing == JArr(<<GroupJson("2016-02-30", <<>>)>>)

\* an employee written as an array, which serde reads by position
EmployeeArray == JArr(<<JStr("Kintai"), JStr("Taro"), JStr("K1")>>)

OtherBodies == {JNull, JStr("ok"), JNum(1), JEmpty, JObj([status |-> JStr("ok")])}

Bodies ==
  EnvelopeBodies \cup BadEnvelopes \cup EmployeeGood \cup EmployeeBad
  \cup GoodListings \cup BadRecordListings
  \cup {NoRecordListing, BadDateListing, EmployeeArray} \cup OtherBodies

Statuses == {200, 401}

Responses ==
  {NetErr} \cup {Answer(st, NotJson) : st \in Statuses}
  \cup {Answer(st, Json(j)) : st \in Statuses, j \in Bodies}

(***************************************************************************)
(* State.  A slot holds one call: idle, sent (its request is out and the   *)
(* future awaits the answer), done (it returned) or panicked.              *)
(***************************************************************************)
Slots == 1..MaxInFlight

NoArgs == [op |-> "none"]
NoRequest == [method |-> "none"]
None == [kind |-> "none"]

TransportInit ==
  /\ pc = [c \in Slots |-> "idle"]
  /\ args = [c \in Slots |-> NoArgs]
  /\ request = [c \in Slots |-> NoRequest]
  /\ response = [c \in Slots |-> None]
  /\ result = [c \in Slots |-> None]
  /\ sends = [c \in Slots |-> 0]
  /\ nCalls = 0
  /\ nSent = 0

CodecIdle == cin = None /\ cenc = None /\ cdec = None

Init == TransportInit /\ CodecIdle

\* a call with arguments a begins in slot c; b is the request the endpoint
\* function builds, or the panic of building it
Begin(c, a, b) ==
  /\ pc[c] = "idle"
  /\ nCalls' = nCalls + 1
  /\ args' = [args EXCEPT ![c] = a]
  /\ IF b.panic
     THEN /\ pc' = [pc EXCEPT ![c] = "panicked"]
          /\ UNCHANGED <<request, sends, nSent>>
     ELSE /\ pc' = [pc EXCEPT ![c] = "sent"]
          /\ request' = [request EXCEPT ![c] = b.req]
          /\ sends' = [sends EXCEPT ![c] = @ + 1]
          /\ nSent' = nSent + 1
  /\ UNCHANGED <<response, result, cin, cenc, cdec>>

\* a mutant of Call: the Authorization header is built from a token kept
\* from an earlier call rather than from the caller's own
CallCachedToken(c, a) ==
  LET others == {o \in Slots : pc[o] # "idle"}
      tok == IF others = {} THEN a.token
             ELSE args[CHOOSE o \in others : TRUE].token
  IN Begin(c, a, EndpointRequest([a EXCEPT !.token = tok]))

\* a caller calls an endpoint function with arguments a: the function runs
\* up to .send(), or panics before it
Call(c, a) == Begin(c, a, EndpointRequest(a))

\* a mutant of Receive: a failed exchange is sent again
ReceiveRetrying(c, r) ==
  /\ pc[c] = "sent"
  /\ response' = [response EXCEPT ![c] = r]
  /\ IF EndpointResult(args[c], r).kind = "Reqwest" /\ sends[c] < 2
     THEN /\ sends' = [sends EXCEPT ![c] = @ + 1]
          /\ nSent' = nSent + 1
          /\ UNCHANGED <<pc, result>>
     ELSE /\ result' = [result EXCEPT ![c] = EndpointResult(args[c], r)]
          /\ pc' = [pc EXCEPT ![c] = "done"]
          /\ UNCHANGED <<sends, nSent>>
  /\ UNCHANGED <<args, request, nCalls, cin, cenc, cdec>>

\* the answer r to the call's request arrives and the call returns
Receive(c, r) ==
  /\ pc[c] = "sent"
  /\ response' = [response EXCEPT ![c] = r]
  /\ result' = [result EXCEPT ![c] = EndpointResult(args[c], r)]
  /\ pc' = [pc EXCEPT ![c] = "done"]
  /\ UNCHANGED <<args, request, sends, nCalls, nSent, cin, cenc, cdec>>

\* the caller is finished with the call; its values are dropped
Return(c) ==
  /\ pc[c] \in {"done", "panicked"}
  /\ pc' = [pc EXCEPT ![c] = "idle"]
  /\ args' = [args EXCEPT ![c] = NoArgs]
  /\ request' = [request EXCEPT ![c] = NoRequest]
  /\ response' = [response EXCEPT ![c] = None]
  /\ result' = [result EXCEPT ![c] = None]
  /\ sends' = [sends EXCEPT ![c] = 0]
  /\ UNCHANGED <<nCalls, nSent, cin, cenc, cdec>>

\* calls made one after the other, MaxCalls of them
Next ==
  \/ \E a \in Args : nCalls < MaxCalls /\ Call(1, a)
  \/ \E r \in Responses : Receive(1, r)
  \/ Return(1)

Spec == Init /\ [][Next]_vars

(***************************************************************************)
(* Calls in flight together: every slot holds one call, and the calls'     *)
(* send and receive steps interleave in any order.                         *)
(***************************************************************************)
ConcTokens == {"tokA", "tokB"}

ConcRequests ==
  {[date |-> NaiveDate(2016, 5, 1),
    time |-> DateTime(2016, 5, 1, 0, 0, 0, 0), code |-> "In"]}

ConcArgs == ArgsOver(ConcTokens, ConcRequests)

ConcResponses ==
  {NetErr,
   Answer(401, Json(JObj([errors |-> JArr(<<JObj([message |-> JStr("bad token"),
                                                 code |-> JNum(401)])>>)]))),
   Answer(200, Json(JObj(EmployeeFields))),
   Answer(200, Json(JEmpty))}

ConcNext ==
  \/ \E c \in Slots, a \in ConcArgs : Call(c, a)
  \/ \E c \in Slots, r \in ConcResponses : Receive(c, r)

ConcSpec == Init /\ [][ConcNext]_vars

(***************************************************************************)
(* The Code codec on its own: a Code is serialized and read back, and a    *)
(* JSON string is read as a Code.                                          *)
(***************************************************************************)
CodeStrings ==
  {"", "0", "1", "2", "3", "4", "5", "01", "In", "1 ", "BreakEnd", "10"}

CodecInit ==
  /\ TransportInit
  /\ cin \in {[code |-> c, text |-> s] : c \in Code, s \in CodeStrings}
  /\ cenc = None
  /\ cdec = None

\* serde_json writes the str Code's Serialize hands it as a JSON string
SerializeCode ==
  /\ cenc = None
  /\ cenc' = [kind |-> "wire", wire |-> JStr(Code_serialize(cin.code)),
              back |-> None]
  /\ UNCHANGED <<pc, args, request, response, result, sends, nCalls, nSent,
                 cin, cdec>>

\* what was serialized is deserialized
DeserializeWire ==
  /\ cenc # None
  /\ cenc.back = None
  /\ cenc' = [cenc EXCEPT !.back = Code_deserialize(cenc.wire)]
  /\ UNCHANGED <<pc, args, request, response, result, sends, nCalls, nSent,
                 cin, cdec>>

\* the JSON string cin.text is deserialized as a Code
DeserializeText ==
  /\ cdec = None
  /\ cdec' = Code_deserialize(JStr(cin.text))
  /\ UNCHANGED <<pc, args, request, response, result, sends, nCalls, nSent,
                 cin, cenc>>

CodecNext == SerializeCode \/ DeserializeWire \/ DeserializeText

CodecSpec == CodecInit /\ [][CodecNext]_vars

(***************************************************************************)
(* Properties.                                                             *)
(***************************************************************************)
Done(c) == pc[c] = "done"
Sent(c) == pc[c] \in {"sent", "done"}
JsonBody(c) == response[c].kind = "body" /\ response[c].body.valid
WireJson(c) == response[c].body.json

\* a body of the form {"errors":[{message, code}, ...]}
IsErrorEnvelope(j) ==
  /\ j.t = "obj"
  /\ "errors" \in DOMAIN j.o
  /\ j.o.errors.t = "arr"
  /\ \A i \in 1..Len(j.o.errors.a) :
       LET e == j.o.errors.a[i]
       IN /\ e.t = "obj"
          /\ {"message", "code"} \subseteq DOMAIN e.o
          /\ e.o.message.t = "str"
          /\ e.o.code.t = "num" /\ e.o.code.n >= 0

SameErrors(errors, wire) ==
  /\ Len(errors) = Len(wire)
  /\ \A i \in 1..Len(wire) :
       /\ errors[i].message = wire[i].o.message.s
       /\ errors[i].code = wire[i].o.code.n

\* C1: whatever the operation and the success type, a body of the form
\* {"errors":[{message, code}, ...]} makes the call return Error::Api with
\* exactly the entries of the body, same count, order, message and code;
\* it is never returned as Ok.
C1_EnvelopeIsApiError ==
  \A c \in Slots :
    (Done(c) /\ JsonBody(c) /\ IsErrorEnvelope(WireJson(c)))
      => /\ result[c].kind = "Api"
         /\ SameErrors(result[c].errors, WireJson(c).o.errors.a)

\* a post, whose PostResponse accepts any object, answered by an envelope of
\* two different entries, and an employee lookup answered by an envelope
\* that also holds every field of an employee
C1_Witness ==
  /\ Done(1) /\ args[1].op = "timerecord::post" /\ JsonBody(1)
  /\ IsErrorEnvelope(WireJson(1))
  /\ Len(WireJson(1).o.errors.a) = 2
  /\ WireJson(1).o.errors.a[1] # WireJson(1).o.errors.a[2]
  /\ result[1].kind = "Api"

IsPost(c) == Sent(c) /\ args[c].op = "timerecord::post"
SentTime(c) == request[c].body.o.time.s

\* the instant t cut to whole seconds
WholeSeconds(t) == [t EXCEPT !.nano = 0]

\* the date and time of day of t as text, without an offset
CivilText(t) ==
  FormatDate(t) \o "T" \o Pad(t.hour, 2) \o ":" \o Pad(t.minute, 2) \o ":"
    \o Pad(t.second, 2)

\* C2: the time field of every punch Request is the +09:00 civil time of
\* the Request's instant cut to whole seconds (UTC time plus 9 hours),
\* followed by the offset +09:00.
C2_TimeIsJst ==
  \A c \in Slots :
    IsPost(c) =>
      SentTime(c) = CivilText(ShiftSecs(WholeSeconds(args[c].req.time),
                                        9 * 3600)) \o "+09:00"

\* the literal JSON value of the test serialize_request
SerializeRequestExpected ==
  JObj([date |-> JStr("2016-05-01"), time |-> JStr("2016-05-01T00:00:00Z"),
        code |-> JStr("4")])

\* the Request of the test serialize_request
SerializeRequestInput ==
  [date |-> NaiveDate(2016, 5, 1),
   time |-> ParseRfc3339("2016-05-01T09:00:00+09:00").v, code |-> "BreakEnd"]

CodeDigit(c) ==
  CASE c = "In" -> "1" [] c = "Out" -> "2" [] c = "BreakStart" -> "3"
    [] c = "BreakEnd" -> "4"

\* C3: a punch Request serializes to an object of exactly the string fields
\* date, time and code, date being the calendar date, code the digit of the
\* Code, and time a text that denotes the instant of the Request; the
\* Request of the test serialize_request serializes to the test's JSON.
C3_RequestJson ==
  \A c \in Slots :
    IsPost(c) =>
      LET body == request[c].body
      IN /\ body.t = "obj" /\ DOMAIN body.o = {"date", "time", "code"}
         /\ body.o.date = JStr(FormatDate(args[c].req.date))
         /\ body.o.code = JStr(CodeDigit(args[c].req.code))
         /\ body.o.time.t = "str"
         /\ ParseRfc3339(body.o.time.s).ok
         /\ ParseRfc3339(body.o.time.s).v = WholeSeconds(args[c].req.time)
         /\ (args[c].req = SerializeRequestInput
               => body = SerializeRequestExpected)

\* C4: each Code is written as its digit, "1" to "4" for In, Out,
\* BreakStart, BreakEnd, reading the written string gives the Code back,
\* and no two Codes are written alike.
C4_CodeRoundTrip ==
  /\ cenc # None =>
       /\ cenc.wire = JStr(CodeDigit(cin.code))
       /\ cenc.back # None => (cenc.back.ok /\ cenc.back.v = cin.code)
  /\ \A c1, c2 \in Code :
       Code_serialize(c1) = Code_serialize(c2) => c1 = c2

C4_Witness ==
  /\ cenc # None /\ cenc.back # None /\ cin.code = "BreakEnd"
  /\ cenc.wire = JStr("4") /\ cenc.back.v = "BreakEnd"

EndsWith(s, suffix) ==
  /\ Len(s) >= Len(suffix)
  /\ SubSeq(s, Len(s) - Len(suffix) + 1, Len(s)) = suffix

\* C5: reading a Code accepts exactly the strings "1", "2", "3", "4"; any
\* other string gives no Code but a decode error whose message holds the
\* string.
C5_CodeDecodeStrict ==
  cdec # None =>
    /\ cdec.ok <=> cin.text \in {"1", "2", "3", "4"}
    /\ cdec.ok => cdec.v = CHOOSE c \in Code : CodeDigit(c) = cin.text
    /\ ~cdec.ok => EndsWith(cdec.msg, cin.text)

C5_Witness == cdec # None /\ cin.text = "01" /\ ~cdec.ok

\* C6: no call panics, whatever its arguments: every failure is an Err
\* value the call returns.
C6_NoPanic == \A c \in Slots : pc[c] # "panicked"

\* bodies that are valid JSON and match neither the error envelope nor the
\* success type D: scalars, and success payloads with a required field
\* missing, a field of the wrong type, a date that is none, or a Code
\* string that is none
Mismatched(D) ==
  {JNull, JStr("ok"), JNum(1)}
  \cup CASE D = "employees::Response" -> EmployeeBad
         [] D = "daily_workings::Response" -> {BadDateListing}
         [] D = "timerecord::Response" ->
              BadRecordListings \cup {NoRecordListing, BadDateListing}
         [] D = "PostResponse" -> {}

\* C7: a call that returns ends in Ok, Error::Api or Error::Reqwest.  A
\* network failure, a body that is no JSON and a JSON body that matches
\* neither the error envelope nor the success type end in Error::Reqwest;
\* Error::Api comes of an error envelope only, and Ok never does.
C7_ThreeOutcomes ==
  \A c \in Slots :
    Done(c) =>
      /\ result[c].kind \in {"Ok", "Api", "Reqwest"}
      /\ response[c].kind = "neterr" => result[c].kind = "Reqwest"
      /\ (response[c].kind = "body" /\ ~response[c].body.valid)
           => result[c].kind = "Reqwest"
      /\ (JsonBody(c) /\ WireJson(c) \in Mismatched(SuccessType(args[c])))
           => result[c].kind = "Reqwest"
      /\ result[c].kind = "Api" => (JsonBody(c) /\ IsErrorEnvelope(WireJson(c)))
      /\ result[c].kind = "Ok" => (JsonBody(c) /\ ~IsErrorEnvelope(WireJson(c)))

\* a time-record listing with an unknown Code string ends in Error::Reqwest
C7_Witness ==
  /\ Done(1) /\ args[1].op = "timerecord::get" /\ JsonBody(1)
  /\ WireJson(1) \in BadRecordListings
  /\ result[1].kind = "Reqwest"

\* C8: a call sends at most one request, and exactly one when it returns a
\* result, whether the result is a payload or a failure; the requests sent
\* never outnumber the calls made.
C8_OneRequestPerCall ==
  /\ nSent <= nCalls
  /\ \A c \in Slots :
       /\ sends[c] <= 1
       /\ Sent(c) => sends[c] = 1
       /\ pc[c] = "panicked" => sends[c] = 0

\* the second of two calls has failed, and two requests were sent in all
C8_Witness ==
  /\ nCalls = 2 /\ nSent = 2 /\ Done(1) /\ sends[1] = 1
  /\ result[1].kind = "Reqwest"

SameRecords(recs, wire) ==
  /\ Len(recs) = Len(wire)
  /\ \A i \in 1..Len(wire) : CodeDigit(recs[i].code) = wire[i].o.code.s

SameDailyWorking(dw, wire, withRecords) ==
  /\ FormatDate(dw.date) = wire.o.date.s
  /\ dw.employee_key = wire.o.employeeKey.s
  /\ withRecords => SameRecords(dw.time_record, wire.o.timeRecord.a)

SameGroup(g, wire, withRecords) ==
  /\ FormatDate(g.date) = wire.o.date.s
  /\ Len(g.daily_workings) = Len(wire.o.dailyWorkings.a)
  /\ \A i \in 1..Len(g.daily_workings) :
       SameDailyWorking(g.daily_workings[i], wire.o.dailyWorkings.a[i],
                        withRecords)

SameListing(data, wire, withRecords) ==
  /\ Len(data) = Len(wire.a)
  /\ \A i \in 1..Len(data) : SameGroup(data[i], wire.a[i], withRecords)

\* C10: a success listing decodes to as many date groups, daily workings
\* and time records as the JSON arrays hold, in the order of the wire, with
\* each date, employeeKey and Code kept, and fields the types do not model
\* ignored.
C10_ListingPreserved ==
  \A c \in Slots :
    /\ (Done(c) /\ args[c].op = "timerecord::get" /\ JsonBody(c)
          /\ WireJson(c) \in GoodListings)
         => /\ result[c].kind = "Ok"
            /\ SameListing(result[c].data, WireJson(c), TRUE)
    /\ (Done(c) /\ args[c].op = "daily_workings::get" /\ JsonBody(c)
          /\ WireJson(c) \in GoodListings \cup {NoRecordListing})
         => /\ result[c].kind = "Ok"
            /\ SameListing(result[c].data, WireJson(c), FALSE)

\* two records that are not in the order of their codes or times, with
\* fields the types do not model
C10_Witness ==
  /\ Done(1) /\ args[1].op = "timerecord::get" /\ result[1].kind = "Ok"
  /\ Len(result[1].data) = 1 /\ Len(result[1].data[1].daily_workings) = 1
  /\ Len(result[1].data[1].daily_workings[1].time_record) = 2
  /\ result[1].data[1].daily_workings[1].time_record[1].code = "Out"
  /\ result[1].data[1].daily_workings[1].time_record[2].code = "In"

====
